---- MODULE Spec2Model ----
(***************************************************************************)
(* DigiLab (src/app.py): patients, doctors and lab results in one SQLite   *)
(* database, uploaded result files in one directory, and a Streamlit page  *)
(* script that every browser session re-executes on each interaction.      *)
(***************************************************************************)
EXTENDS Integers, Sequences, FiniteSets, TLC

\* ---- bounds of the model ------------------------------------------------
MaxPatients == 1
MaxDoctors  == 1
MaxResults  == 2
MaxClock    == 1

\* Two browser sessions, each running the page script in a thread of its own.
Sessions == {1, 2}

\* ---- inputs the forms can deliver ---------------------------------------
None       == [none |-> TRUE]
FirstNames == {"Ann"}
LastNames  == {"Lee"}
Dates      == {20240101}
Genders    == {"other"}
DocNames   == {"Dr Who"}
Specs      == {"lab"}
TestTypes  == {"CBC"}
NotesIn    == {""}
Techs      == {"tech"}
FileNames  == {"a.pdf"}
Contents   == {<<>>, <<1>>}

menu == <<"Home", "Register Patient", "Register Doctor",
          "Upload Lab Result", "View Lab Results">>

VARIABLES
    patients,      \* table patients, in rowid order
    doctors,       \* table doctors
    lab_results,   \* table lab_results
    disk,          \* the filesystem: path -> bytes, for the paths that exist
    clock,         \* datetime.utcnow()
    ses,           \* per browser session: the page shown and the script's locals
    solo           \* history: per session, no other open or write of the same
                   \* path happened since this session opened its file

vars == <<patients, doctors, lab_results, disk, clock, ses, solo>>

\* ---- helpers -----------------------------------------------------------
\* SQLite INTEGER PRIMARY KEY: one more than the largest rowid in the table.
RECURSIVE MaxId(_)
MaxId(tbl) == IF tbl = <<>> THEN 0
              ELSE LET m == MaxId(Tail(tbl)) IN
                   IF Head(tbl).id > m THEN Head(tbl).id ELSE m
NextId(tbl) == MaxId(tbl) + 1

\* The relationship result.patient: whether a patients row has that key.
HasPatient(x) == \E i \in DOMAIN patients : patients[i].id = x

\* os.path.join(save_dir, file.name).
save_dir == "uploaded_results"
PathJoin(dir, name) == <<dir, name>>

\* os.path.exists
PathExists(path) == path \in DOMAIN disk

OpenTrunc_keep(d, path) ==
    [p \in DOMAIN d \cup {path} |-> IF p \in DOMAIN d THEN d[p] ELSE <<>>]

\* open(path, "wb"): creates the file or truncates it to length 0.
OpenTrunc(d, path) == [p \in DOMAIN d \cup {path} |-> IF p = path THEN <<>> ELSE d[p]]

\* A write of buf at offset 0 of a file holding old (the descriptor's offset
\* after open is 0, whatever the file holds by then).
Overlay(old, buf) ==
    [i \in 1..(IF Len(old) > Len(buf) THEN Len(old) ELSE Len(buf)) |->
        IF i <= Len(buf) THEN buf[i] ELSE old[i]]

\* f.write(file.getbuffer()) followed by close on a descriptor opened on path;
\* a file unlinked meanwhile keeps no name in the directory.
WriteAt(d, path, buf) ==
    IF path \in DOMAIN d THEN [d EXCEPT ![path] = Overlay(d[path], buf)] ELSE d

\* ---- the ORM classes ----------------------------------------------------
Patient(id, first_name, last_name, dob, gender) ==
    [id |-> id, first_name |-> first_name, last_name |-> last_name,
     date_of_birth |-> dob, gender |-> gender]

Doctor(id, name, specialization) ==
    [id |-> id, name |-> name, specialization |-> specialization]

\* Column defaults of LabResult, applied at INSERT to the columns not given.
LabResultDefaultStatus == "pending"
LabResultDefaultUploadedAt(now) == now

\* The row the INSERT at time now stores for LabResult(...) with that status.
LabResult(id, patient_id, test_type, test_date, result_date, file_path, notes, technician, status, now) ==
    [id |-> id, patient_id |-> patient_id, test_type |-> test_type,
     test_date |-> test_date, result_date |-> result_date,
     file_path |-> file_path, notes |-> notes, lab_technician |-> technician,
     status |-> status, uploaded_at |-> LabResultDefaultUploadedAt(now)]

\* ---- a session between two interactions --------------------------------
Rendered(choice, shown, msg) ==
    [choice |-> choice, pc |-> "idle", shown |-> shown, msg |-> msg,
     options |-> <<>>, listing |-> <<>>, ret |-> None, locals |-> None]

Init ==
    /\ patients = <<>>
    /\ doctors = <<>>
    /\ lab_results = <<>>
    /\ disk = <<>>
    /\ clock = 0
    /\ ses = [s \in Sessions |-> Rendered("Home", "home", "")]
    /\ solo = [s \in Sessions |-> TRUE]

DbUnchanged == UNCHANGED <<patients, doctors, lab_results>>

\* ---- pages -------------------------------------------------------------
Home(s) ==
    /\ ses[s].pc = "idle"
    /\ ses' = [ses EXCEPT ![s] = Rendered("Home", "home", "")]
    /\ DbUnchanged /\ UNCHANGED <<disk, clock, solo>>

RegisterPatientPage(s) ==
    /\ ses[s].pc = "idle"
    /\ ses' = [ses EXCEPT ![s] = Rendered("Register Patient", "patient_form", "")]
    /\ DbUnchanged /\ UNCHANGED <<disk, clock, solo>>

RegisterDoctorPage(s) ==
    /\ ses[s].pc = "idle"
    /\ ses' = [ses EXCEPT ![s] = Rendered("Register Doctor", "doctor_form", "")]
    /\ DbUnchanged /\ UNCHANGED <<disk, clock, solo>>

\* session.query(Patient).all() and the branch on it: the warning, or the form
\* whose selectbox offers the ids just read.
PatientIds_off == [i \in DOMAIN patients |-> patients[i].id + 1]
PatientIds == [i \in DOMAIN patients |-> patients[i].id]
UploadPageRender_always ==
    [Rendered("Upload Lab Result", "lab_result_form", "") EXCEPT
        !.options = PatientIds]
UploadPageRender ==
    IF patients = <<>>
    THEN Rendered("Upload Lab Result", "none", "warning")
    ELSE [Rendered("Upload Lab Result", "lab_result_form", "") EXCEPT
             !.options = PatientIds]

UploadPage(s) ==
    /\ ses[s].pc = "idle"
    /\ ses' = [ses EXCEPT ![s] = UploadPageRender]
    /\ DbUnchanged /\ UNCHANGED <<disk, clock, solo>>

\* ---- record operations --------------------------------------------------
\* add_patient: the table after the commit, and the object returned.
add_patient_row_swapped(first_name, last_name, dob, gender) ==
    Patient(NextId(patients), last_name, first_name, dob, gender)
add_patient_row(first_name, last_name, dob, gender) ==
    Patient(NextId(patients), first_name, last_name, dob, gender)
add_patient(first_name, last_name, dob, gender) ==
    Append(patients, add_patient_row(first_name, last_name, dob, gender))

add_doctor(name, specialization) ==
    Append(doctors, Doctor(NextId(doctors), name, specialization))

add_lab_result_nostatus(patient_id, test_type, test_date, result_date, file_path, notes, technician, now) ==
    Append(lab_results,
           LabResult(NextId(lab_results), patient_id, test_type, test_date,
                     result_date, file_path, notes, technician,
                     LabResultDefaultStatus, now))
add_lab_result(patient_id, test_type, test_date, result_date, file_path, notes, technician, now) ==
    Append(lab_results,
           LabResult(NextId(lab_results), patient_id, test_type, test_date,
                     result_date, file_path, notes, technician,
                     "completed", now))

\* ---- Register Patient: submit -------------------------------------------
\* The commit succeeds: the row is stored, st.success, rerun() draws the
\* empty form again.
SubmitPatient(s) ==
    /\ ses[s].pc = "idle"
    /\ ses[s].shown = "patient_form"
    /\ Len(patients) < MaxPatients
    /\ \E fn \in FirstNames, ln \in LastNames, dob \in Dates, g \in Genders :
          /\ patients' = add_patient(fn, ln, dob, g)
          /\ ses' = [ses EXCEPT ![s] =
                       [Rendered("Register Patient", "patient_form", "") EXCEPT
                           !.ret = add_patient_row(fn, ln, dob, g),
                           !.locals = [first_name |-> fn, last_name |-> ln,
                                       dob |-> dob, gender |-> g]]]
    /\ UNCHANGED <<doctors, lab_results, disk, clock, solo>>

\* session.commit() raises (the storage layer fails): nothing is caught, the
\* script run ends in the exception display.
SubmitPatientFail(s) ==
    /\ ses[s].pc = "idle"
    /\ ses[s].shown = "patient_form"
    /\ ses' = [ses EXCEPT ![s] = Rendered("Register Patient", "patient_form", "exception")]
    /\ DbUnchanged /\ UNCHANGED <<disk, clock, solo>>

\* ---- Register Doctor: submit --------------------------------------------
SubmitDoctor(s) ==
    /\ ses[s].pc = "idle"
    /\ ses[s].shown = "doctor_form"
    /\ Len(doctors) < MaxDoctors
    /\ \E n \in DocNames, sp \in Specs : doctors' = add_doctor(n, sp)
    /\ ses' = [ses EXCEPT ![s] = Rendered("Register Doctor", "doctor_form", "")]
    /\ UNCHANGED <<patients, lab_results, disk, clock, solo>>

SubmitDoctorFail(s) ==
    /\ ses[s].pc = "idle"
    /\ ses[s].shown = "doctor_form"
    /\ ses' = [ses EXCEPT ![s] = Rendered("Register Doctor", "doctor_form", "exception")]
    /\ DbUnchanged /\ UNCHANGED <<disk, clock, solo>>

\* ---- Upload Lab Result: submit ----------------------------------------
\* Uploads that hold a file descriptor or a row still to be committed.
InFlight == {t \in Sessions : ses[t].pc \in {"opened", "written"}}
Writing(path) == {t \in Sessions : ses[t].pc = "opened" /\ ses[t].locals.file_path = path}

SubmitUploadNoFile_writes(s) ==
    /\ ses[s].pc = "idle"
    /\ ses[s].shown = "lab_result_form"
    /\ ses' = [ses EXCEPT ![s] =
                 IF patients = <<>> THEN UploadPageRender
                 ELSE [UploadPageRender EXCEPT !.msg = "error"]]
    /\ disk' = OpenTrunc(disk, PathJoin(save_dir, ""))
    /\ DbUnchanged /\ UNCHANGED <<clock, solo>>

\* Submitted without a file: the script reruns, draws the form from a fresh
\* query and shows st.error.
SubmitUploadNoFile(s) ==
    /\ ses[s].pc = "idle"
    /\ ses[s].shown = "lab_result_form"
    /\ ses' = [ses EXCEPT ![s] =
                 IF patients = <<>> THEN UploadPageRender
                 ELSE [UploadPageRender EXCEPT !.msg = "error"]]
    /\ DbUnchanged /\ UNCHANGED <<disk, clock, solo>>

SubmitUploadOpen_commitFirst(s) ==
    /\ ses[s].pc = "idle"
    /\ ses[s].shown = "lab_result_form"
    /\ patients # <<>>
    /\ Len(lab_results) + Cardinality(InFlight) < MaxResults
    /\ \E i \in DOMAIN ses[s].options, name \in FileNames, buf \in Contents :
          ses' = [ses EXCEPT ![s] =
                [Rendered("Upload Lab Result", "lab_result_form", "") EXCEPT
                    !.pc = "written",
                    !.locals = [patient_id |-> PatientIds[i], test_type |-> "CBC",
                                test_date |-> 20240101, result_date |-> 20240101,
                                name |-> name, buf |-> buf,
                                file_path |-> PathJoin(save_dir, name),
                                notes |-> "", technician |-> "tech"]]]
    /\ DbUnchanged /\ UNCHANGED <<disk, clock, solo>>

\* Submitted with a file: the rerun reads the patients again, the selectbox
\* yields the id at the chosen position, the directory is made and the file is
\* opened "wb".
SubmitUploadOpen(s) ==
    /\ ses[s].pc = "idle"
    /\ ses[s].shown = "lab_result_form"
    /\ patients # <<>>
    /\ Len(lab_results) + Cardinality(InFlight) < MaxResults
    /\ \E i \in DOMAIN ses[s].options, tt \in TestTypes, td \in Dates,
          rd \in Dates, name \in FileNames, buf \in Contents,
          notes \in NotesIn, tech \in Techs :
          LET file_path == PathJoin(save_dir, name) IN
          /\ ses' = [ses EXCEPT ![s] =
                [Rendered("Upload Lab Result", "lab_result_form", "") EXCEPT
                    !.pc = "opened",
                    !.locals = [patient_id |-> PatientIds[i], test_type |-> tt,
                                test_date |-> td, result_date |-> rd,
                                name |-> name, buf |-> buf,
                                file_path |-> file_path, notes |-> notes,
                                technician |-> tech]]]
          /\ disk' = OpenTrunc(disk, file_path)
          /\ solo' = [t \in Sessions |->
                        IF t = s THEN TRUE
                        ELSE IF t \in Writing(file_path) THEN FALSE ELSE solo[t]]
    /\ DbUnchanged /\ UNCHANGED <<clock>>

\* f.write(file.getbuffer()) and the end of the with block.
WriteClose(s) ==
    /\ ses[s].pc = "opened"
    /\ LET path == ses[s].locals.file_path
           buf  == ses[s].locals.buf IN
       /\ disk' = WriteAt(disk, path, buf)
       /\ solo' = [t \in Sessions |->
                     IF t = s THEN TRUE
                     ELSE IF t \in Writing(path) THEN FALSE ELSE solo[t]]
    /\ ses' = [ses EXCEPT ![s].pc = "written"]
    /\ DbUnchanged /\ UNCHANGED <<clock>>

\* add_lab_result(...) from its call to its return: the INSERT reads the
\* clock at some moment now not before the call, the commit succeeds, then
\* st.success and rerun() draws the upload page again.
CommitLabResult(s) ==
    /\ ses[s].pc = "written"
    /\ \E now \in clock..MaxClock :
          LET l == ses[s].locals IN
          /\ lab_results' = add_lab_result(l.patient_id, l.test_type, l.test_date,
                                           l.result_date, l.file_path, l.notes,
                                           l.technician, now)
          /\ clock' = now
    /\ ses' = [ses EXCEPT ![s] = UploadPageRender]
    /\ UNCHANGED <<patients, doctors, disk, solo>>

CommitLabResultFail_cleanup(s) ==
    /\ ses[s].pc = "written"
    /\ ses' = [ses EXCEPT ![s] = [UploadPageRender EXCEPT !.msg = "exception"]]
    /\ disk' = [q \in DOMAIN disk \ {ses[s].locals.file_path} |-> disk[q]]
    /\ DbUnchanged /\ UNCHANGED <<clock, solo>>

\* session.commit() raises: the exception leaves add_lab_result and the script
\* uncaught; nothing undoes the file write.
CommitLabResultFail(s) ==
    /\ ses[s].pc = "written"
    /\ ses' = [ses EXCEPT ![s] =
                 [UploadPageRender EXCEPT !.msg = "exception"]]
    /\ DbUnchanged /\ UNCHANGED <<disk, clock, solo>>

\* ---- View Lab Results ---------------------------------------------------
ResultEntry_always(result) == [id |-> result.id, download |-> TRUE]

\* One expander per row; the download button when the path is non-empty and
\* exists, with the bytes read from it.
ResultEntry(result) ==
    [id |-> result.id,
     download |-> result.file_path # <<>> /\ PathExists(result.file_path)]

\* result.patient is None for a row whose patient_id matches no patient, and
\* reading its first_name raises.
ViewRaises == \E i \in DOMAIN lab_results : ~HasPatient(lab_results[i].patient_id)

ViewPageRender_noinfo ==
    IF ViewRaises
    THEN Rendered("View Lab Results", "listing", "exception")
    ELSE [Rendered("View Lab Results", "listing", "") EXCEPT
             !.listing = [i \in DOMAIN lab_results |-> ResultEntry(lab_results[i])]]
ViewPageRender ==
    IF lab_results # <<>>
    THEN IF ViewRaises
         THEN Rendered("View Lab Results", "listing", "exception")
         ELSE [Rendered("View Lab Results", "listing", "") EXCEPT
                  !.listing = [i \in DOMAIN lab_results |-> ResultEntry(lab_results[i])]]
    ELSE Rendered("View Lab Results", "none", "info")

ViewPage(s) ==
    /\ ses[s].pc = "idle"
    /\ ses' = [ses EXCEPT ![s] = ViewPageRender]
    /\ DbUnchanged /\ UNCHANGED <<disk, clock, solo>>

\* ---- the environment ----------------------------------------------------
Tick ==
    /\ clock < MaxClock
    /\ clock' = clock + 1
    /\ DbUnchanged /\ UNCHANGED <<disk, ses, solo>>

\* Somebody outside the application removes a file of the upload directory.
RemoveFile ==
    /\ \E p \in DOMAIN disk : disk' = [q \in DOMAIN disk \ {p} |-> disk[q]]
    /\ DbUnchanged /\ UNCHANGED <<clock, ses, solo>>

Next ==
    \/ \E s \in Sessions : Home(s)
    \/ \E s \in Sessions : RegisterPatientPage(s)
    \/ \E s \in Sessions : RegisterDoctorPage(s)
    \/ \E s \in Sessions : UploadPage(s)
    \/ \E s \in Sessions : ViewPage(s)
    \/ \E s \in Sessions : SubmitPatient(s)
    \/ \E s \in Sessions : SubmitPatientFail(s)
    \/ \E s \in Sessions : SubmitDoctor(s)
    \/ \E s \in Sessions : SubmitDoctorFail(s)
    \/ \E s \in Sessions : SubmitUploadNoFile(s)
    \/ \E s \in Sessions : SubmitUploadOpen(s)
    \/ \E s \in Sessions : WriteClose(s)
    \/ \E s \in Sessions : CommitLabResult(s)
    \/ \E s \in Sessions : CommitLabResultFail(s)
    \/ Tick

Spec == Init /\ [][Next]_vars

\* The application with somebody else removing uploaded files.
NextExt == Next \/ RemoveFile
SpecExt == Init /\ [][NextExt]_vars

\* ---- steps, as the properties below recognise them ----------------------
LastRow(tbl) == tbl[Len(tbl)]
Grew(tbl, tbl2) == Len(tbl2) = Len(tbl) + 1 /\ SubSeq(tbl2, 1, Len(tbl)) = tbl

\* add_patient returned to session s in this step.
AddPatientReturned(s) == ses'[s].ret # None /\ ses'[s] # ses[s]
\* Session s finished writing its file in this step.
WroteFile(s) == ses[s].pc = "opened" /\ ses'[s].pc = "written"
\* The commit of add_lab_result in session s succeeded / raised in this step.
Committed(s) == ses[s].pc = "written" /\ ses'[s].pc = "idle" /\ lab_results' # lab_results
CommitRaised(s) == ses[s].pc = "written" /\ ses'[s].pc = "idle" /\ ses'[s].msg = "exception"
\* Session s drew the upload page / the results page in this step.
DrewUpload(s) == /\ ses'[s].choice = "Upload Lab Result" /\ ses'[s].pc = "idle"
                 /\ ses[s].pc = "idle" /\ ses'[s] # ses[s]
DrewView(s) == ses'[s].choice = "View Lab Results" /\ ses'[s] # ses[s]
\* Session s was shown the missing-file error in this step.
ShowedError(s) == ses'[s].msg = "error" /\ ses'[s] # ses[s]

\* ---- C1 ----------------------------------------------------------------
\* C1: whenever add_patient returns, the patients table has grown by exactly
\* the one row returned, the doctors and lab_results tables are as before, and
\* the returned object's first_name, last_name, date_of_birth and gender are
\* the form's inputs.
C1_AddPatientPersistsOne ==
    [][\A s \in Sessions : AddPatientReturned(s) =>
          /\ Grew(patients, patients')
          /\ doctors' = doctors /\ lab_results' = lab_results
          /\ LastRow(patients') = ses'[s].ret
          /\ ses'[s].ret.first_name = ses'[s].locals.first_name
          /\ ses'[s].ret.last_name = ses'[s].locals.last_name
          /\ ses'[s].ret.date_of_birth = ses'[s].locals.dob
          /\ ses'[s].ret.gender = ses'[s].locals.gender]_vars

C1_Witness ==
    \E s \in Sessions : /\ ses[s].ret # None
                        /\ Len(patients) = MaxPatients
                        /\ ses[s].ret = LastRow(patients)

\* ---- C2 ----------------------------------------------------------------
\* C2: no row of lab_results ever has a status other than "completed", and the
\* row a successful add_lab_result inserts carries the caller's arguments and
\* an uploaded_at not before the clock at the call.
C2_CompletedAndStamped ==
    /\ [](\A i \in DOMAIN lab_results : lab_results[i].status = "completed")
    /\ [][\A s \in Sessions : Committed(s) =>
            /\ Grew(lab_results, lab_results')
            /\ LastRow(lab_results').status = "completed"
            /\ LastRow(lab_results').uploaded_at >= clock
            /\ LastRow(lab_results').patient_id = ses[s].locals.patient_id
            /\ LastRow(lab_results').file_path = ses[s].locals.file_path]_vars

C2_Witness ==
    \E i \in DOMAIN lab_results :
        lab_results[i].status = "completed" /\ lab_results[i].uploaded_at > 0

\* ---- C3 ----------------------------------------------------------------
\* C3 as stated: after every completed write of an upload the file under that
\* name holds exactly the bytes of that write, whichever sessions uploaded,
\* and the row committed for it carries the path of that name.
C3_Original ==
    [][\A s \in Sessions :
          /\ WroteFile(s) => /\ PathExists(ses[s].locals.file_path)'
                             /\ disk'[ses[s].locals.file_path] = ses[s].locals.buf
          /\ Committed(s) => LastRow(lab_results').file_path =
                                PathJoin(save_dir, ses[s].locals.name)]_vars

\* C3 amended: the same, for a write that no other session's open or write of
\* the same path came between its own open and its completion.
C3_LastWriteWinsWhenNotInterleaved ==
    [][\A s \in Sessions :
          /\ (WroteFile(s) /\ solo[s]) =>
                 /\ ses[s].locals.file_path \in DOMAIN disk'
                 /\ disk'[ses[s].locals.file_path] = ses[s].locals.buf
          /\ Committed(s) => /\ Grew(lab_results, lab_results')
                             /\ LastRow(lab_results').file_path =
                                   PathJoin(save_dir, ses[s].locals.name)]_vars

\* Two uploads under one name are both committed and the file holds the empty
\* content of one of them, nothing of the other's byte.
C3_Witness ==
    /\ Len(lab_results) = 2
    /\ lab_results[1].file_path = lab_results[2].file_path
    /\ lab_results[1].file_path \in DOMAIN disk
    /\ disk[lab_results[1].file_path] = <<>>
    /\ lab_results[2].uploaded_at > lab_results[1].uploaded_at
    /\ \A s \in Sessions : ses[s].pc = "idle"

\* ---- C4 ----------------------------------------------------------------
\* C4: a drawing of the upload page shows the form exactly when the patients
\* table is not empty then, and the warning otherwise; and while there is no
\* patient no session shows the form or runs an upload, no file is on disk and
\* no lab result exists.
C4_FormIffPatients ==
    /\ [][\A s \in Sessions : DrewUpload(s) =>
            /\ (ses'[s].shown = "lab_result_form") <=> (patients' # <<>>)
            /\ (ses'[s].msg = "warning") <=> (patients' = <<>>)]_vars
    /\ [](patients = <<>> =>
            /\ \A s \in Sessions : ses[s].shown # "lab_result_form" /\ ses[s].pc = "idle"
            /\ DOMAIN disk = {}
            /\ lab_results = <<>>)

C4_Witness ==
    \E s \in Sessions : /\ ses[s].choice = "Upload Lab Result"
                        /\ ses[s].msg = "warning" /\ ses[s].shown = "none"
                        /\ patients = <<>>

\* ---- C5 ----------------------------------------------------------------
\* C5: the step that puts up the "Please upload a file!" error leaves the three
\* tables and the upload directory as they were and starts no upload.
C5_NoFileNoEffect ==
    [][\A s \in Sessions : ShowedError(s) =>
          /\ patients' = patients /\ doctors' = doctors /\ lab_results' = lab_results
          /\ disk' = disk
          /\ ses'[s].pc = "idle" /\ ses'[s].shown = "lab_result_form"]_vars

C5_Witness ==
    \E s \in Sessions : ses[s].msg = "error" /\ ses[s].choice = "Upload Lab Result"

C7_EmptyState ==
    [][\A s \in Sessions : DrewView(s) =>
          /\ (ses'[s].msg = "info") <=> (lab_results = <<>>)
          /\ (lab_results = <<>>) => ses'[s].listing = <<>>
          /\ patients' = patients /\ doctors' = doctors /\ lab_results' = lab_results
          /\ disk' = disk]_vars

C7_Witness ==
    \E s \in Sessions : /\ ses[s].choice = "View Lab Results" /\ ses[s].msg = "info"
                        /\ lab_results = <<>> /\ patients # <<>>

\* ---- C8 ----------------------------------------------------------------
\* C8: every lab_results row's patient_id is the id of a patients row.
C8_ResultsReferencePatients ==
    \A i \in DOMAIN lab_results : HasPatient(lab_results[i].patient_id)

C8_Witness ==
    \E i \in DOMAIN lab_results :
        /\ Len(patients) = MaxPatients
        /\ lab_results[i].patient_id = LastRow(patients).id

\* ---- C9 ----------------------------------------------------------------
\* C9: a row is committed only by a session whose file write has completed,
\* and the file of the row exists on disk when the commit happens and ever
\* after.
C9_WriteBeforeCommit ==
    /\ [][lab_results' # lab_results =>
            /\ LastRow(lab_results').file_path \in DOMAIN disk
            /\ \E s \in Sessions : /\ ses[s].pc = "written"
                                   /\ ses[s].locals.file_path = LastRow(lab_results').file_path]_vars
    /\ [](\A i \in DOMAIN lab_results : lab_results[i].file_path \in DOMAIN disk)
    /\ [](\A s \in Sessions : ses[s].pc = "written" =>
             ses[s].locals.file_path \in DOMAIN disk)

C9_Witness ==
    \E i \in DOMAIN lab_results :
        /\ lab_results[i].file_path \in DOMAIN disk
        /\ disk[lab_results[i].file_path] # <<>>

\* ---- C10 ---------------------------------------------------------------
\* C10: when the commit in add_lab_result raises, no row is added and the file
\* written for it stays on disk as it is.
C10_NoRollbackOfFile ==
    [][\A s \in Sessions : CommitRaised(s) =>
          /\ lab_results' = lab_results
          /\ disk' = disk
          /\ ses[s].locals.file_path \in DOMAIN disk']_vars

C10_Witness ==
    \E s \in Sessions :
        /\ ses[s].choice = "Upload Lab Result" /\ ses[s].msg = "exception"
        /\ \E p \in DOMAIN disk : \A i \in DOMAIN lab_results : lab_results[i].file_path # p
====
